---- MODULE Spec2Model ----
(***************************************************************************)
(* Bake to Vertex Color (src/__init__.py): the operator                     *)
(* BAKETOVERTEXCOLOR_OT_bake.execute and the sampler pick_color.            *)
(*                                                                         *)
(* Numbers.  A UV coordinate is the rational n / UVDen, kept as its        *)
(* numerator n.  A colour channel is an integer intensity; the result of   *)
(* the averaging division is kept as a reduced fraction <<num, den>>.      *)
(* Arrays are sequences (1-based); the source's 0-based index k is k + 1.  *)
(***************************************************************************)
EXTENDS Integers, Sequences, FiniteSets, TLC

\* ------------------------------------------------------------------ bounds
NObj == 2
MaxDim == 4
MaxRadius == 3
MaxUV == 5
UVDen == 4

\* ------------------------------------------------------- program constants
Channels == 4
MaxVertexColors == 8
MinSampleRadius == 1

\* context.active_object when no object is active
NoObject == 0

\* mask=None, among arrays
None == <<>>

\* wm             the window manager's properties (Overwrite, Sample Radius,
\*                Circle Sample Shape)
\* img            the selected image: its size <<width, height>> and its flat
\*                pixels
\* objects        the scene's mesh objects
\* active_object  the view layer's active object, NoObject for none
\* result         what the last call of execute returned, "NONE" before any
\* reports        what the last call of execute reported
\* pre            history: objects and active_object when execute was last
\*                called
VARIABLES wm, img, objects, active_object, result, reports, pre

vars == <<wm, img, objects, active_object, result, reports, pre>>

\* ------------------------------------------------------- python arithmetic
Min(a, b) == IF a <= b THEN a ELSE b

\* int(n / d) for d > 0: python's int() truncates toward zero
int(n, d) == IF n >= 0 THEN n \div d ELSE -((-n) \div d)

\* math.floor(n / d) for d > 0
floor(n, d) == n \div d

\* a % b for b > 0: python's result has the sign of the divisor
mod(a, b) == a % b

RECURSIVE gcd(_, _)
gcd(a, b) == IF b = 0 THEN a ELSE gcd(b, a % b)

\* n / d (true division, d > 0) as a fraction in lowest terms
divide(n, d) ==
    LET g == gcd(IF n >= 0 THEN n ELSE -n, d)
    IN  <<n \div g, d \div g>>

RECURSIVE SeqSum(_)
SeqSum(s) == IF s = <<>> THEN 0 ELSE Head(s) + SeqSum(Tail(s))

\* ------------------------------------------------------------ numpy arrays
\* an array holds its elements: the sequence s with its elements computed
ndarray(s) == s \o <<>>

\* a[start:stop] on the first axis, 0 <= start: the stop is clipped to len(a)
slice(a, start, stop) == SubSeq(a, start + 1, Min(stop, Len(a)))

\* a[:, start:stop]
slice_cols(a, start, stop) == ndarray([i \in 1..Len(a) |-> slice(a[i], start, stop)])

\* np.concatenate((a, b), axis=0)
concatenate0(a, b) == a \o b

\* np.concatenate((a, b), axis=1)
concatenate1(a, b) == ndarray([i \in 1..Len(a) |-> a[i] \o b[i]])

reverse(s) == ndarray([k \in 1..Len(s) |-> s[Len(s) + 1 - k]])

\* np.flipud(a): rows in reverse order
flipud(a) == reverse(a)

\* np.fliplr(a): columns in reverse order
fliplr(a) == ndarray([i \in 1..Len(a) |-> reverse(a[i])])

\* np.rot90(a, -2): rotation by 180 degrees
rot90_2(a) == flipud(fliplr(a))

\* np.array(flat).reshape(h, w, 4)
reshape(flat, h, w) ==
    ndarray([i \in 1..h |-> ndarray([j \in 1..w |-> ndarray([c \in 1..Channels |->
        flat[((i - 1) * w + (j - 1)) * Channels + c]])])])

height(a) == Len(a)
width(a) == IF Len(a) = 0 THEN 0 ELSE Len(a[1])


\* a float value holding the integer p, as a fraction
num(p) == <<p, 1>>

rgba(px) == ndarray([c \in 1..Channels |-> num(px[c])])

\* a new vertex colour layer is white
White == ndarray([c \in 1..Channels |-> num(1)])

\* the exception numpy raises on operands of shapes that do not broadcast,
\* among colours: a value that is no colour
ValueError == ndarray([c \in 1..Channels |-> <<0, 0>>])

\* the length of one axis of a * b under numpy broadcasting (0 - 1 = no such)
bdim(a, b) == IF a = b \/ b = 1 THEN a ELSE IF a = 1 THEN b ELSE 0 - 1

\* mask * pixel_slice, element by element, both of shape (., ., 4)
multiply(m, a) ==
    LET bh == bdim(height(m), height(a))
        bw == bdim(width(m), width(a))
        at(k, n) == IF n = 1 THEN 1 ELSE k
    IN  ndarray([i \in 1..bh |-> ndarray([j \in 1..bw |-> ndarray([c \in 1..Channels |->
                m[at(i, height(m))][at(j, width(m))][c]
                    * a[at(i, height(a))][at(j, width(a))][c]])])])

broadcasts(m, a) ==
    bdim(height(m), height(a)) >= 0 /\ bdim(width(m), width(a)) >= 0

\* a[:, :, c-1:c].sum()
channel_sum(a, c) ==
    SeqSum(ndarray([i \in 1..Len(a) |->
        SeqSum(ndarray([j \in 1..Len(a[i]) |-> a[i][j][c]]))]))

\* ------------------------------------------------------------- pick_color
\* vert = <<u, v>> as numerators over UVDen; "x and y flipped": x is the row
\* the row without the wraparound
x_nowrap(vert, img_height) == int(vert[2] * img_height, UVDen)

x(vert, img_height) == mod(int(vert[2] * img_height, UVDen), img_height)

y(vert, img_width) == mod(int(vert[1] * img_width, UVDen), img_width)

\* the anchor one row too high
x_top_off(vert, img_height, radius) == mod(x(vert, img_height) - radius, img_height)

x_top(vert, img_height, radius) == mod(x(vert, img_height) + 1 - radius, img_height)

\* the anchor one column too far left
y_top_off(vert, img_width, radius) == mod(y(vert, img_width) - radius, img_width)

y_top(vert, img_width, radius) == mod(y(vert, img_width) + 1 - radius, img_width)

\* pixels[x_top:x_top + diameter, y_top:y_top + diameter, :]
pixel_slice(vert, pixels, img_width, img_height, radius, diameter) ==
    LET xt == x_top(vert, img_height, radius)
        yt == y_top(vert, img_width, radius)
    IN  slice_cols(slice(pixels, xt, xt + diameter), yt, yt + diameter)

color_avg(vert, pixels, img_width, img_height, radius, diameter, mask, mask_sum) ==
    LET block == pixel_slice(vert, pixels, img_width, img_height, radius, diameter)
    IN  IF ~broadcasts(mask, block)
        THEN ValueError
        ELSE LET masked == multiply(mask, block)
             IN  ndarray([c \in 1..Channels |->
                    divide(channel_sum(masked, c), mask_sum)])

pick_color(vert, pixels, img_width, img_height, radius, diameter, mask, mask_sum) ==
    IF mask = None
    THEN rgba(pixels[x(vert, img_height) + 1][y(vert, img_width) + 1])
    ELSE color_avg(vert, pixels, img_width, img_height, radius, diameter,
                   mask, mask_sum)

\* ------------------------------------------- execute: the padded buffer
\* "Overdraw pixels": the first 2r rows again below, then the first 2r
\* columns again on the right
overdraw_r(px, radius) ==
    LET pixels_bottom == slice(px, 0, radius)
        tall == concatenate0(px, pixels_bottom)
        pixels_side == slice_cols(tall, 0, radius)
    IN  concatenate1(tall, pixels_side)

overdraw(px, radius) ==
    LET pixels_bottom == slice(px, 0, 2 * radius)
        tall == concatenate0(px, pixels_bottom)
        pixels_side == slice_cols(tall, 0, 2 * radius)
    IN  concatenate1(tall, pixels_side)

\* ------------------------------------------------- execute: the masks
\* np.fromfunction(lambda i, j: i ** 2 + j ** 2, (radius, radius))
fromfunction(radius) ==
    ndarray([i \in 1..radius |-> ndarray([j \in 1..radius |->
        (i - 1) * (i - 1) + (j - 1) * (j - 1)])])

\* the same with > for >=
clear_outside_gt(m, radius) ==
    ndarray([i \in 1..Len(m) |-> ndarray([j \in 1..Len(m[i]) |->
        IF m[i][j] > radius * radius - radius THEN 0 ELSE m[i][j]])])

\* the same with the threshold r ** 2
clear_outside_r2(m, radius) ==
    ndarray([i \in 1..Len(m) |-> ndarray([j \in 1..Len(m[i]) |->
        IF m[i][j] >= radius * radius THEN 0 ELSE m[i][j]])])

\* mask_2d[mask_2d >= r ** 2 - r] = 0
clear_outside(m, radius) ==
    ndarray([i \in 1..Len(m) |-> ndarray([j \in 1..Len(m[i]) |->
        IF m[i][j] >= radius * radius - radius THEN 0 ELSE m[i][j]])])

\* mask_2d[mask_2d > 1] = 1
clamp_ones(m) ==
    ndarray([i \in 1..Len(m) |-> ndarray([j \in 1..Len(m[i]) |->
        IF m[i][j] > 1 THEN 1 ELSE m[i][j]])])

\* mask_2d[0] = 1
first_row_ones(m) ==
    ndarray([i \in 1..Len(m) |-> ndarray([j \in 1..Len(m[i]) |->
        IF i = 1 THEN 1 ELSE m[i][j]])])

\* the quarter piece for the 2D-mask
quarter(radius) == first_row_ones(clamp_ones(clear_outside(fromfunction(radius), radius)))

\* "puzzle the full 2D-mask from the quarter piece"
puzzle(q, radius) ==
    LET turned == rot90_2(q)
        wide == concatenate1(turned, fliplr(slice_cols(turned, 0, radius - 1)))
    IN  concatenate0(wide, flipud(slice(wide, 0, radius - 1)))

circle_mask_2d(radius) == puzzle(quarter(radius), radius)

\* mask_2d.sum()
sum2d(m) == SeqSum(ndarray([i \in 1..Len(m) |-> SeqSum(m[i])]))

\* mask = np.zeros((d, d, 4)); mask[mask_2d > 0] = 1
circle_mask(radius, diameter) ==
    LET m2 == circle_mask_2d(radius)
    IN  ndarray([i \in 1..diameter |-> ndarray([j \in 1..diameter |->
            ndarray([c \in 1..Channels |-> IF m2[i][j] > 0 THEN 1 ELSE 0])])])

\* np.ones((d, d, 4))
square_mask(diameter) ==
    ndarray([i \in 1..diameter |-> ndarray([j \in 1..diameter |->
        ndarray([c \in 1..Channels |-> 1])])])

\* d * 2 for d ** 2
square_mask_sum_twice(diameter) == diameter * 2

\* mask_sum = d**2
square_mask_sum(diameter) == diameter * diameter

build_mask(radius, diameter, use_circle) ==
    IF radius = 1 THEN None
    ELSE IF use_circle THEN circle_mask(radius, diameter)
    ELSE square_mask(diameter)

build_mask_sum(radius, diameter, use_circle) ==
    IF radius = 1 THEN 1
    ELSE IF use_circle THEN sum2d(circle_mask_2d(radius))
    ELSE square_mask_sum(diameter)


\* ------------------------------------------------------------ the scene
\* bpy.ops.mesh.vertex_color_add() on the active object: one more layer (a
\* copy of the active one, white when there is none), which becomes active
vertex_color_add(obj) ==
    LET loops == Len(obj.uv_layers[obj.uv_layers_active_index + 1])
        fresh == IF Len(obj.vertex_colors) = 0
                 THEN ndarray([k \in 1..loops |-> White])
                 ELSE obj.vertex_colors[obj.vertex_colors_active_index + 1]
    IN  [obj EXCEPT !.vertex_colors = Append(@, fresh),
                    !.vertex_colors_active_index = Len(obj.vertex_colors)]

\* the colours pick_color gives for the loops of the active UV layer, written
\* to the active vertex colour layer
write_colors(obj, pixels, img_width, img_height, radius, diameter, mask, mask_sum) ==
    LET uv_index == obj.uv_layers_active_index
        uv_layer == obj.uv_layers[uv_index + 1]
    IN  [obj EXCEPT !.vertex_colors[obj.vertex_colors_active_index + 1] =
            ndarray([k \in 1..Len(@) |->
                IF k <= Len(uv_layer)
                THEN pick_color(uv_layer[k], pixels, img_width, img_height,
                                radius, diameter, mask, mask_sum)
                ELSE @[k]])]

INFO(text, o) == <<"INFO", text, o>>
ERROR(text) == <<"ERROR", text>>

\* one pass of the loop "for obj in orig_selected_object" over object o;
\* st = [objects, active_object, reports]
bake_object(o, st, overwrite, pixels, img_width, img_height, radius, diameter, mask, mask_sum) ==
    LET obj == st.objects[o]
        act == [st EXCEPT !.active_object = o]
        added == vertex_color_add(obj)
        target == IF Len(obj.vertex_colors) = 0 THEN added
                  ELSE IF ~overwrite THEN added
                  ELSE obj
        written == write_colors(target, pixels, img_width, img_height,
                                radius, diameter, mask, mask_sum)
    IN  IF Len(obj.uv_layers) <= 0
        THEN [act EXCEPT !.reports = Append(@, INFO("UV Map missing", o))]
        ELSE IF Len(obj.vertex_colors) # 0 /\ ~overwrite
                /\ Len(obj.vertex_colors) = MaxVertexColors
        THEN [act EXCEPT !.reports =
                Append(@, INFO("Vertex Colors maximum count reached", o))]
        ELSE [act EXCEPT !.objects[o] = [written EXCEPT !.select = FALSE]]

RECURSIVE bake_loop(_, _, _, _, _, _, _, _, _, _)
bake_loop(todo, st, overwrite, pixels, img_width, img_height, radius, diameter, mask, mask_sum) ==
    IF todo = <<>>
    THEN st
    ELSE bake_loop(Tail(todo),
                   bake_object(Head(todo), st, overwrite, pixels, img_width,
                               img_height, radius, diameter, mask, mask_sum),
                   overwrite, pixels, img_width, img_height, radius, diameter,
                   mask, mask_sum)

\* context.selected_objects, in the order of the object ids
RECURSIVE selected_from(_, _)
selected_from(objs, o) ==
    IF o > NObj THEN <<>>
    ELSE (IF objs[o].select THEN <<o>> ELSE <<>>) \o selected_from(objs, o + 1)

selected_objects(objs) == selected_from(objs, 1)

\* the same, never selecting
select_set_all_false(objs, list, value) ==
    [o \in DOMAIN objs |->
        IF \E k \in 1..Len(list) : list[k] = o
        THEN [objs[o] EXCEPT !.select = FALSE]
        ELSE objs[o]]

\* obj.select_set(value) for every obj of the list
select_set_all(objs, list, value) ==
    [o \in DOMAIN objs |->
        IF \E k \in 1..Len(list) : list[k] = o
        THEN [objs[o] EXCEPT !.select = value]
        ELSE objs[o]]


\* ------------------------------------------------------------ the inputs
\* img.pixels, flat: every channel of every pixel a different value
ramp(w, h) == ndarray([k \in 1..(w * h * Channels) |-> k])

\* img.pixels, flat: every pixel the colour px
uniform(w, h, px) ==
    ndarray([k \in 1..(w * h * Channels) |-> px[((k - 1) % Channels) + 1]])

UniformColors == {<<3, 0, 7, 1>>}

\* the images of every size whose pixels all differ
RampImages ==
    {[size |-> <<w, h>>, pixels |-> ramp(w, h)] : w \in 0..MaxDim, h \in 0..MaxDim}

\* the images of every size that have one colour
UniformImages ==
    {[size |-> <<w, h>>, pixels |-> uniform(w, h, px)] :
        w \in 0..MaxDim, h \in 0..MaxDim, px \in UniformColors}

UVs == (-MaxUV..MaxUV) \X (-MaxUV..MaxUV)

\* a mesh object: its selection flag, its UV layers (the loops' coordinates),
\* its vertex colour layers (the loops' colours) and the active one's index
Mesh(sel, uvs, uv_index, layers) ==
    [select |-> sel,
     uv_layers |-> uvs,
     uv_layers_active_index |-> uv_index,
     vertex_colors |-> ndarray([k \in 1..layers |-> <<White>>]),
     vertex_colors_active_index |-> IF layers = 0 THEN 0 - 1 ELSE 0]

Props ==
    [baketovertexcolor_overwrite : BOOLEAN,
     baketovertexcolor_sample_radius : MinSampleRadius..MaxRadius,
     baketovertexcolor_use_sample_circle : BOOLEAN]

SceneVert == <<1, 2>>
SceneOtherVert == <<3, 1>>

\* no UV map, one UV layer, or two of which the second is the active one
SceneUVs ==
    {[layers |-> <<>>, active_index |-> 0 - 1],
     [layers |-> <<<<SceneVert>>>>, active_index |-> 0],
     [layers |-> <<<<SceneOtherVert>>, <<SceneVert>>>>, active_index |-> 1]}
SceneSizes == {<<0, 2>>, <<2, 0>>, <<1, 2>>, <<2, 1>>, <<2, 2>>}
SceneLayers == {0, MaxVertexColors}

SceneMeshes ==
    {Mesh(sel, uvs.layers, uvs.active_index, layers) :
        sel \in BOOLEAN, uvs \in SceneUVs, layers \in SceneLayers}

\* any selection of meshes, any active object, a small image, the square
\* sample shape
Init ==
    /\ wm \in {p \in Props : ~p.baketovertexcolor_use_sample_circle}
    /\ \E size \in SceneSizes :
        img = [size |-> size, pixels |-> ramp(size[1], size[2])]
    /\ objects \in [1..NObj -> SceneMeshes]
    /\ active_object \in {NoObject} \cup (1..NObj)
    /\ result = "NONE"
    /\ reports = <<>>
    /\ pre = [objects |-> objects, active_object |-> active_object]

\* one selected mesh with two UV layers, the active one (the second) with a
\* loop at any UV coordinate; any of the images
InitOneLoop(images) ==
    /\ wm \in {p \in Props : p.baketovertexcolor_overwrite}
    /\ img \in images
    /\ \E vert \in UVs :
        objects = [o \in 1..NObj |->
                    IF o = 1 THEN Mesh(TRUE, <<<<SceneOtherVert>>, <<vert>>>>, 1, 1)
                    ELSE Mesh(FALSE, <<>>, 0 - 1, 0)]
    /\ active_object = 1
    /\ result = "NONE"
    /\ reports = <<>>
    /\ pre = [objects |-> objects, active_object |-> active_object]

InitSampler == InitOneLoop(RampImages)

InitUniform == InitOneLoop(UniformImages)

\* ------------------------------------------------------------- execute
img_width == img.size[1]
img_height == img.size[2]
r == wm.baketovertexcolor_sample_radius
d == 2 * r - 1

zero_size(w, h) == w = 0 \/ h = 0

\* the test one pixel too lenient
radius_too_large_off(diameter, w, h) == diameter - 2 > w \/ diameter - 2 > h

\* d - 1 > img_width or d - 1 > img_height
radius_too_large(diameter, w, h) == diameter - 1 > w \/ diameter - 1 > h

pixels == overdraw(reshape(img.pixels, img_height, img_width), r)
mask == build_mask(r, d, wm.baketovertexcolor_use_sample_circle)
mask_sum == build_mask_sum(r, d, wm.baketovertexcolor_use_sample_circle)

orig_active_object == active_object
orig_selected_object == selected_objects(objects)

\* One call of execute, from the lookup of the image to the return.  The
\* image is one that exists, so "if not img" does not hold.
execute ==
    /\ pre' = [objects |-> objects, active_object |-> active_object]
    /\ IF zero_size(img_width, img_height)
       THEN /\ reports' = <<ERROR("No image data! Image Size = 0")>>
            /\ result' = "CANCELLED"
            /\ UNCHANGED <<objects, active_object>>
       ELSE IF radius_too_large(d, img_width, img_height)
       THEN /\ reports' = <<ERROR("Sample radius too large")>>
            /\ result' = "CANCELLED"
            /\ UNCHANGED <<objects, active_object>>
       ELSE LET deselected ==
                    [objects |-> select_set_all(objects, orig_selected_object, FALSE),
                     active_object |-> active_object,
                     reports |-> <<>>]
                baked == bake_loop(orig_selected_object, deselected,
                                   wm.baketovertexcolor_overwrite, pixels,
                                   img_width, img_height, r, d, mask, mask_sum)
            IN  /\ objects' = select_set_all(baked.objects, orig_selected_object, TRUE)
                /\ active_object' = orig_active_object
                /\ reports' = baked.reports
                /\ result' = "FINISHED"
    /\ UNCHANGED <<wm, img>>

Next == execute

\* any scene, a small image
Spec == Init /\ [][Next]_vars

\* one loop at any UV coordinate, images of distinct pixels
SpecSampler == InitSampler /\ [][Next]_vars

\* one loop at any UV coordinate, images of one colour
SpecUniform == InitUniform /\ [][Next]_vars

TypeOK ==
    /\ result \in {"NONE", "CANCELLED", "FINISHED"}
    /\ active_object \in {NoObject} \cup (1..NObj)
    /\ \A o \in 1..NObj : Len(objects[o].vertex_colors) <= MaxVertexColors


\* ------------------------------------------------------------ vocabulary
\* the active UV layer of object o
ActiveUV(o) == objects[o].uv_layers[objects[o].uv_layers_active_index + 1]

\* the UV coordinates of the loops of the scene's meshes, in their active UV
\* layers
Verts ==
    UNION {{ActiveUV(o)[k] : k \in 1..Len(ActiveUV(o))} :
            o \in {p \in 1..NObj : Len(objects[p].uv_layers) > 0}}

\* the image as execute reshapes it, before the overdraw
image == reshape(img.pixels, img_height, img_width)

\* the configurations the bake accepts
Accepted ==
    /\ img_width > 0 /\ img_height > 0
    /\ 2 * r - 2 <= img_width /\ 2 * r - 2 <= img_height

Selected(objs) == {o \in 1..NObj : objs[o].select}

\* the colours of the active vertex colour layer of object o
ActiveColors(o) == objects[o].vertex_colors[objects[o].vertex_colors_active_index + 1]

\* ------------------------------------------------------------------- C1
\* C1: for H, W > 0 and any UV coordinate, negative or outside [0,1)
\* included, the pixel indices pick_color computes satisfy 0 <= row < H and
\* 0 <= col < W.
C1_IndicesInRange ==
    (img_width > 0 /\ img_height > 0) =>
        \A vert \in Verts :
            /\ 0 <= x(vert, img_height) /\ x(vert, img_height) < img_height
            /\ 0 <= y(vert, img_width) /\ y(vert, img_width) < img_width

\* a finished bake of a loop with u < 0 and v > 1, whose colour is the pixel
\* at the computed indices
C1_Witness ==
    /\ result = "FINISHED" /\ r = 1
    /\ img_width > 1 /\ img_height > 1
    /\ \E vert \in Verts :
        /\ vert[1] < 0 /\ vert[2] > UVDen
        /\ ActiveColors(1)[1] =
            rgba(image[x(vert, img_height) + 1][y(vert, img_width) + 1])

\* ------------------------------------------------------------------- C2
\* C2: row = floor(v*H) mod H and col = floor(u*W) mod W, so that a negative
\* coordinate wraps to the far edge (u = -0.1 maps to column W-1 when
\* W*0.1 < 1).
C2_FloorMapping ==
    (img_width > 0 /\ img_height > 0 /\ result = "FINISHED") =>
        \A vert \in Verts :
            /\ x(vert, img_height) = mod(floor(vert[2] * img_height, UVDen), img_height)
            /\ y(vert, img_width) = mod(floor(vert[1] * img_width, UVDen), img_width)

\* ------------------------------------------------------------------- C3
\* C3: for every accepted configuration with r >= 2 and every hit pixel, the
\* block taken from the padded buffer is a full D x D block whose cell (i, j)
\* is the image's pixel at ((row + 1 - r + i) mod H, (col + 1 - r + j) mod W).
C3_ToroidalBlock ==
    (Accepted /\ r >= 2) =>
        \A vert \in Verts :
            LET block == pixel_slice(vert, pixels, img_width, img_height, r, d)
                orig == image
                row == x(vert, img_height)
                col == y(vert, img_width)
            IN  /\ Len(block) = d
                /\ \A i \in 1..Len(block) : Len(block[i]) = d
                /\ \A i \in 0..(d - 1), j \in 0..(d - 1) :
                    block[i + 1][j + 1] =
                        orig[mod(row + 1 - r + i, img_height) + 1]
                            [mod(col + 1 - r + j, img_width) + 1]

\* a finished bake with r >= 2 whose neighbourhood crosses both the top and
\* the bottom edge of the image, and the left edge
C3_Witness ==
    /\ result = "FINISHED" /\ r >= 2 /\ Accepted
    /\ \E vert \in Verts :
        /\ x(vert, img_height) + 1 - r < 0
        /\ x_top(vert, img_height, r) + d > img_height
        /\ y(vert, img_width) + 1 - r < 0
        /\ image[1][1] # image[img_height][img_width]

\* ------------------------------------------------------------------- C4
\* C4 as stated: the anchor is (row + 1 - r) mod H_padded and
\* (col + 1 - r) mod W_padded, the dimensions after the wraparound padding.
C4_AnchorModPadded ==
    (Accepted /\ r >= 2 /\ result = "FINISHED") =>
        \A vert \in Verts :
            /\ x_top(vert, img_height, r) =
                mod(x(vert, img_height) + 1 - r, height(pixels))
            /\ y_top(vert, img_width, r) =
                mod(y(vert, img_width) + 1 - r, width(pixels))

\* C4 amended: the neighbourhood starts at the padded buffer's cell
\* ((row + 1 - r) mod H, (col + 1 - r) mod W), H and W the dimensions of the
\* image before the padding.
C4_AnchorModImage ==
    (Accepted /\ r >= 2) =>
        \A vert \in Verts :
            LET block == pixel_slice(vert, pixels, img_width, img_height, r, d)
                arow == mod(x(vert, img_height) + 1 - r, img_height)
                acol == mod(y(vert, img_width) + 1 - r, img_width)
            IN  /\ Len(block) > 0 /\ Len(block[1]) > 0
                /\ block[1][1] = pixels[arow + 1][acol + 1]
                /\ block[1][1] = image[arow + 1][acol + 1]

\* a finished weighted bake whose anchor wrapped: row + 1 - r is negative
C4_Witness ==
    /\ result = "FINISHED" /\ r >= 2 /\ Accepted
    /\ \E vert \in Verts :
        /\ x(vert, img_height) + 1 - r < 0
        /\ x_top(vert, img_height, r) = img_height + x(vert, img_height) + 1 - r
        /\ image[1][1] # image[img_height][img_width]


\* ------------------------------------------------------------------- C5
\* C5: with an image of width or height 0, or with 2r - 2 above the width or
\* the height, execute reports an error and returns CANCELLED, and the scene
\* is as before the call: no colour written, no layer added, no selection
\* flag and no active object changed.
C5_CancelledUntouched ==
    (/\ result # "NONE"
     /\ \/ img_width = 0 \/ img_height = 0
        \/ 2 * r - 2 > img_width \/ 2 * r - 2 > img_height) =>
        /\ result = "CANCELLED"
        /\ Len(reports) = 1 /\ reports[1][1] = "ERROR"
        /\ objects = pre.objects
        /\ active_object = pre.active_object

\* a cancelled bake (radius too large for a non-empty image) of a scene with
\* a selected mesh that has a UV map, no colour layer yet and is not active
C5_Witness ==
    /\ result = "CANCELLED"
    /\ img_width > 0 /\ img_height > 0
    /\ reports = <<ERROR("Sample radius too large")>>
    /\ \E o \in 1..NObj :
        /\ objects[o].select
        /\ Len(objects[o].uv_layers) > 0
        /\ Len(objects[o].vertex_colors) = 0
        /\ active_object # o

\* ------------------------------------------------------------------- C6
\* the rule of the quarter-tile, with threshold test le(value, r^2 - r)
QuarterOn(i, j, radius, inclusive) ==
    \/ i = 0
    \/ IF inclusive
       THEN i * i + j * j <= radius * radius - radius
       ELSE i * i + j * j < radius * radius - radius

\* the distance of index k of the full mask from the centre index radius - 1
FromCentre(k, radius) == IF k >= radius - 1 THEN k - (radius - 1) ELSE (radius - 1) - k

MaskFollows(inclusive) ==
    LET tile == quarter(r)
        full == mask
    IN  /\ \A i \in 0..(r - 1), j \in 0..(r - 1) :
            tile[i + 1][j + 1] = IF QuarterOn(i, j, r, inclusive) THEN 1 ELSE 0
        /\ Len(full) = d
        /\ \A i \in 0..(d - 1) :
            /\ Len(full[i + 1]) = d
            /\ \A j \in 0..(d - 1), c \in 1..Channels :
                /\ full[i + 1][j + 1][c] =
                        tile[FromCentre(i, r) + 1][FromCentre(j, r) + 1]
                /\ full[i + 1][j + 1][c] =
                        IF QuarterOn(FromCentre(i, r), FromCentre(j, r), r, inclusive)
                        THEN 1 ELSE 0

CircleBuilt == Accepted /\ r >= 2 /\ wm.baketovertexcolor_use_sample_circle

\* C6 as stated: a quarter-tile cell is on exactly when row^2 + col^2 <=
\* radius^2 - radius or it lies in the first row, and the full mask is the
\* quarter-tile mirrored horizontally and vertically.
C6_ThresholdInclusive == (CircleBuilt /\ result = "FINISHED") => MaskFollows(TRUE)

\* C6 amended: a quarter-tile cell is on exactly when row^2 + col^2 <
\* radius^2 - radius (strictly) or it lies in the first row, and the full
\* mask is the quarter-tile mirrored horizontally and vertically.
C6_ThresholdStrict == CircleBuilt => MaskFollows(FALSE)

\* a finished bake with the circle mask of radius 2, whose quarter-tile cell
\* (1, 1) has exactly the threshold value 2 and is off
C6_Witness ==
    /\ result = "FINISHED" /\ CircleBuilt /\ r = 2
    /\ quarter(r)[2][2] = 0
    /\ mask[1][1][1] = 0 /\ mask[2][2][1] = 1

\* ------------------------------------------------------------------- C7
\* the number of cells of the mask that are on
OnCells ==
    LET full == mask
    IN  Cardinality({cell \in (1..d) \X (1..d) : full[cell[1]][cell[2]][1] = 1})

\* C7: the circle mask of radius r >= 2 has D <= mask_sum < D^2, mask_sum
\* being the number of cells that are on, and is unchanged by a rotation of
\* 180 degrees.
C7_CircleMaskSum ==
    CircleBuilt =>
        LET full == mask
            total == mask_sum
        IN  /\ total = OnCells
            /\ d <= total /\ total < d * d
            /\ \A i \in 1..d, j \in 1..d : full[i][j] = full[d + 1 - i][d + 1 - j]

\* a finished bake with the circle mask of the largest radius
C7_Witness ==
    /\ result = "FINISHED" /\ CircleBuilt /\ r = MaxRadius
    /\ mask_sum > d /\ mask_sum < d * d

\* ------------------------------------------------------------------- C8
\* the image's one colour, if every pixel has the colour of pixel (0, 0)
Uniform ==
    /\ img_width > 0 /\ img_height > 0
    /\ LET orig == image
       IN  \A i \in 1..img_height, j \in 1..img_width : orig[i][j] = orig[1][1]

\* C8: on an image whose every pixel is the colour C, weighted sampling with
\* the square or the circle mask of any accepted radius gives exactly C: the
\* masked sum of each channel is mask_sum times C.
C8_UniformImage ==
    (Accepted /\ r >= 2 /\ Uniform) =>
        \A vert \in Verts :
            LET colour == image[1][1]
                masked == multiply(mask,
                    pixel_slice(vert, pixels, img_width, img_height, r, d))
            IN  /\ \A c \in 1..Channels :
                    channel_sum(masked, c) = mask_sum * colour[c]
                /\ pick_color(vert, pixels, img_width, img_height, r, d, mask, mask_sum)
                      = rgba(colour)
                /\ result = "FINISHED" => ActiveColors(1)[1] = rgba(colour)

\* a finished weighted bake of a uniform image of more than one pixel, whose
\* colour has channels that differ
C8_Witness ==
    /\ result = "FINISHED" /\ Accepted /\ r >= 2 /\ Uniform
    /\ wm.baketovertexcolor_use_sample_circle
    /\ img_width > 2
    /\ image[1][1][1] # image[1][1][2]
    /\ ActiveColors(1)[1] = rgba(image[1][1])

\* ------------------------------------------------------------------- C9
\* C9: point sampling (mask = None) gives the colour stored at (row, col),
\* and the weighted path with radius 1, diameter 1, a 1 x 1 mask of ones and
\* mask_sum 1 gives the same, on the image and on the padded buffer.
C9_PointEqualsUnitMask ==
    (img_width > 0 /\ img_height > 0) =>
        \A vert \in Verts :
            LET orig == image
                padded == pixels
                ones == square_mask(1)
                point == pick_color(vert, orig, img_width, img_height, 1, 1, None, 1)
            IN  /\ point = rgba(orig[x(vert, img_height) + 1][y(vert, img_width) + 1])
                /\ pick_color(vert, orig, img_width, img_height, 1, 1, ones, 1) = point
                /\ pick_color(vert, padded, img_width, img_height, 1, 1, None, 1) = point
                /\ pick_color(vert, padded, img_width, img_height, 1, 1, ones, 1) = point

\* a finished point-sampling bake (r = 1) of an image of distinct pixels, at
\* a pixel that is neither in the first row nor in the first column
C9_Witness ==
    /\ result = "FINISHED" /\ r = 1
    /\ image[1][1] # image[img_height][img_width]
    /\ \E vert \in Verts :
        /\ x(vert, img_height) > 0 /\ y(vert, img_width) > 0
        /\ ActiveColors(1)[1] =
            pick_color(vert, pixels, img_width, img_height, 1, 1, square_mask(1), 1)

\* ------------------------------------------------------------------ C10
\* C10: when execute returns FINISHED, the selected objects and the active
\* object are those of before the call, whichever objects were skipped.
C10_SelectionRestored ==
    result = "FINISHED" =>
        /\ Selected(objects) = Selected(pre.objects)
        /\ active_object = pre.active_object

\* a finished bake that skipped one selected mesh for its missing UV map and
\* another for its 8 layers, with an active object that is not selected
C10_Witness ==
    /\ result = "FINISHED"
    /\ ~wm.baketovertexcolor_overwrite
    /\ \E o \in 1..NObj, p \in 1..NObj :
        /\ objects[o].select /\ Len(objects[o].uv_layers) = 0
        /\ objects[p].select /\ Len(objects[p].uv_layers) > 0
        /\ Len(objects[p].vertex_colors) = MaxVertexColors
        /\ reports = <<INFO("UV Map missing", o),
                       INFO("Vertex Colors maximum count reached", p)>>
    /\ active_object = NoObject


====
